---- MODULE Spec2Model ----
(***************************************************************************)
(* Model of the YewChat client component (src/components/chat.rs):         *)
(* the Chat component's state (users, messages, the input element's value, *)
(* the websocket sink), its constructor `create` and its two `update`      *)
(* handlers, Msg::HandleMsg and Msg::SubmitMessage, with the serde         *)
(* encoding and decoding of WebSocketMessage and MessageData.              *)
(*                                                                         *)
(* Strings.  A Rust String is modelled as a Text: either Lit(cs), a text   *)
(* that is not a JSON document, given by its characters cs, or Doc(v), the *)
(* text of the JSON document with value v.  serde_json::from_str and       *)
(* serde_json::to_string are the typed decoding and encoding between Texts *)
(* and the Rust structs.                                                   *)
(***************************************************************************)
EXTENDS Integers, Sequences, FiniteSets, TLC

VARIABLES
    phase,       \* "Uninitialized", "Active", or "Panicked" (an unwrap() failed)
    users,       \* Chat.users : Vec<UserProfile>
    messages,    \* Chat.messages : Vec<MessageData>
    chat_input,  \* value of the <input> element behind Chat.chat_input
    wss,         \* texts enqueued on Chat.wss.tx, in enqueue order
    attempts,    \* history: every text offered to try_send, with its outcome
    decoded,     \* history: number of inbound Message frames decoded in full
    submitted,   \* history: number of SubmitMessage calls with non-blank input
    last,        \* history: the last step: its input, send outcome, return value
                 \* and the length of the roster before it
    rendered,    \* the tree the last call of Chat::view produced (what is displayed)
    codec        \* the last encoding or decoding made by the codec specification

vars == <<phase, users, messages, chat_input, wss, attempts, decoded, submitted, last,
          rendered, codec>>

-----------------------------------------------------------------------------
(* Bounds of the model. *)

MaxLog == 2        \* inbound Message frames accepted in one run
MaxSend == 2       \* texts offered to the transport in one run
MaxViewLog == 2    \* longest log the view specification renders

-----------------------------------------------------------------------------
(* Option and Result. *)

None == [some |-> FALSE]
Some(v) == [some |-> TRUE, v |-> v]
Err == [ok |-> FALSE]
Ok(v) == [ok |-> TRUE, v |-> v]

(* Texts (Rust Strings) and JSON values. *)

Lit(cs) == [lit |-> cs]
Doc(v) == [doc |-> v]
IsDoc(s) == "doc" \in DOMAIN s

JNull == [t |-> "null"]
JStr(s) == [t |-> "str", s |-> s]
JArr(a) == [t |-> "arr", a |-> a]
JObj(o) == [t |-> "obj", o |-> o]

Empty == Lit(<< >>)
Blank == Lit(<<" ", " ">>)
Hi == Lit(<<"h", "i">>)
Gif == Lit(<<"c", ".", "g", "i", "f">>)
Png == Lit(<<"c", ".", "p", "n", "g">>)
Oops == Lit(<<"o", "o", "p", "s">>)
Alice == Lit(<<"a", "l", "i", "c", "e">>)
Bob == Lit(<<"b", "o", "b">>)
Carol == Lit(<<"c", "a", "r", "o", "l">>)

-----------------------------------------------------------------------------
(* enum MsgTypes with #[serde(rename_all = "lowercase")]. *)

MsgTypes == {"Users", "Register", "Message"}

WireName(mt) ==
    CASE mt = "Users" -> Lit(<<"u", "s", "e", "r", "s">>)
      [] mt = "Register" -> Lit(<<"r", "e", "g", "i", "s", "t", "e", "r">>)
      [] mt = "Message" -> Lit(<<"m", "e", "s", "s", "a", "g", "e">>)

Bogus == Lit(<<"b", "o", "g", "u", "s">>)

(* struct WebSocketMessage with #[serde(rename_all = "camelCase")]. *)

WebSocketMessage(mt, da, d) == [message_type |-> mt, data_array |-> da, data |-> d]

(* Mutant: an absent list is written as the empty array. *)
SerOptVec_EmptyArray(o) == IF o.some THEN JArr([i \in 1..Len(o.v) |-> JStr(o.v[i])]) ELSE JArr(<< >>)

(* Encoding of an Option<String> / Option<Vec<String>> field: None is null. *)
SerOptString(o) == IF o.some THEN JStr(o.v) ELSE JNull
SerOptVec(o) == IF o.some THEN JArr([i \in 1..Len(o.v) |-> JStr(o.v[i])]) ELSE JNull

(* serde_json::to_string(&WebSocketMessage): all three fields are written. *)
to_string(m) ==
    Doc(JObj([messageType |-> JStr(WireName(m.message_type)),
              dataArray |-> SerOptVec(m.data_array),
              data |-> SerOptString(m.data)]))

(* Decoding of the fields of a JSON object o. *)
Field(o, k) == IF k \in DOMAIN o THEN o[k] ELSE JNull

DeMsgType(v) ==
    IF v.t = "str" /\ \E mt \in MsgTypes : WireName(mt) = v.s
    THEN Ok(CHOOSE mt \in MsgTypes : WireName(mt) = v.s)
    ELSE Err

DeOptString(v) ==
    CASE v.t = "null" -> Ok(None)
      [] v.t = "str" -> Ok(Some(v.s))
      [] OTHER -> Err

DeOptVec(v) ==
    CASE v.t = "null" -> Ok(None)
      [] v.t = "arr" /\ (\A i \in 1..Len(v.a) : v.a[i].t = "str") ->
            Ok(Some([i \in 1..Len(v.a) |-> v.a[i].s]))
      [] OTHER -> Err

(* serde_json::from_str::<WebSocketMessage>(&s): messageType is required, *)
(* an Option field may be missing or null, unknown fields are ignored.    *)
FromStrWebSocketMessage(s) ==
    IF ~IsDoc(s) \/ s.doc.t # "obj" \/ "messageType" \notin DOMAIN s.doc.o
    THEN Err
    ELSE LET o == s.doc.o
             mt == DeMsgType(o["messageType"])
             da == DeOptVec(Field(o, "dataArray"))
             d == DeOptString(Field(o, "data"))
         IN IF mt.ok /\ da.ok /\ d.ok
            THEN Ok(WebSocketMessage(mt.v, da.v, d.v))
            ELSE Err

(* struct MessageData { from, message }: both fields are required Strings. *)
MessageData(f, m) == [from |-> f, message |-> m]

FromStrMessageData(s) ==
    IF ~IsDoc(s) \/ s.doc.t # "obj" \/ ~({"from", "message"} \subseteq DOMAIN s.doc.o)
    THEN Err
    ELSE LET o == s.doc.o
         IN IF o["from"].t = "str" /\ o["message"].t = "str"
            THEN Ok(MessageData(o["from"].s, o["message"].s))
            ELSE Err

(* struct UserProfile and the avatar template of the Users arm. *)
AvatarPrefix == "https://avatars.dicebear.com/api/adventurer-neutral/"
AvatarSuffix == ".svg"
Avatar(u) == <<AvatarPrefix, u, AvatarSuffix>>
UserProfile(u) == [name |-> u, avatar |-> Avatar(u)]

(* Mutant: the new profiles are appended to the roster instead of replacing it. *)
Profiles_Merged(list) == users \o [i \in 1..Len(list) |-> UserProfile(list[i])]

(* users_from_message.iter().map(|u| UserProfile {..}).collect() *)
Profiles(list) == [i \in 1..Len(list) |-> UserProfile(list[i])]

-----------------------------------------------------------------------------
(* Inputs: the identity of the user context, the texts a user can type,    *)
(* and the raw texts the event bus can deliver.                            *)

Identities == {Alice}

(* The lists an inbound Users frame carries: empty, one name, two names, *)
(* and a duplicated name.                                               *)
RosterLists == {<< >>, <<Alice>>, <<Alice, Bob>>, <<Bob, Bob>>}

(* A JSON object for a frame; Absent marks a key that is left out. *)
Absent == [t |-> "absent"]
WireObj(mt, da, d) ==
    LET keys == {"messageType"} \cup (IF da = Absent THEN {} ELSE {"dataArray"})
                                \cup (IF d = Absent THEN {} ELSE {"data"})
    IN JObj([k \in keys |-> CASE k = "messageType" -> mt
                              [] k = "dataArray" -> da
                              [] k = "data" -> d])

Payload(f, m) == Doc(JObj([from |-> JStr(f), message |-> JStr(m)]))
PayloadNoBody == Doc(JObj([from |-> JStr(Alice)]))

GoodPayloads == {Payload(Alice, Gif), Payload(Bob, Hi)}

UsersFrames ==
    {Doc(WireObj(JStr(WireName("Users")), da, Absent)) :
        da \in {Absent, JNull} \cup {JArr([i \in 1..Len(l) |-> JStr(l[i])]) : l \in RosterLists}}

MessageFrames ==
    {Doc(WireObj(JStr(WireName("Message")), Absent, d)) :
        d \in {Absent, JStr(Hi), JStr(PayloadNoBody)} \cup {JStr(p) : p \in GoodPayloads}}

RegisterFrames == {Doc(WireObj(JStr(WireName("Register")), JNull, JStr(Bob)))}

BadFrames == {Oops, Doc(WireObj(JStr(Bogus), Absent, Absent))}

InboundTexts == UsersFrames \cup MessageFrames \cup RegisterFrames \cup BadFrames

InputTexts == {Empty, Blank, Hi}

-----------------------------------------------------------------------------
(* Chat::view: the roster region and the message region of the tree. *)

GifSuffix == <<".", "g", "i", "f">>

(* Mutant: the suffix is looked for without its leading dot. *)
EndsWith_NoDot(s, suffix) ==
    /\ ~IsDoc(s)
    /\ Len(s.lit) >= Len(suffix) - 1
    /\ SubSeq(s.lit, Len(s.lit) - Len(suffix) + 2, Len(s.lit)) = Tail(suffix)

(* str::ends_with.  The text of a JSON document ends with a brace, a      *)
(* bracket, a quote, a digit or a letter of true, false, null: never with *)
(* ".gif".                                                                *)
EndsWith(s, suffix) ==
    /\ ~IsDoc(s)
    /\ Len(s.lit) >= Len(suffix)
    /\ SubSeq(s.lit, Len(s.lit) - Len(suffix) + 1, Len(s.lit)) = suffix

(* self.users.iter().find(|u| u.name == m.from): the first such entry. *)
Find(roster, name) ==
    LET hits == {j \in 1..Len(roster) : roster[j].name = name}
    IN IF hits = {} THEN None
       ELSE Some(roster[CHOOSE j \in hits : \A k \in hits : j <= k])

(* Mutant: an entry of an unknown sender is rendered, without an avatar. *)
Bubble_Always(roster, m) ==
    LET user == Find(roster, m.from)
    IN << [avatar |-> IF user.some THEN user.v.avatar ELSE << >>,
           from |-> m.from,
           img |-> EndsWith(m.message, GifSuffix),
           body |-> m.message] >>

(* What the view renders for one log entry: one bubble with the avatar of *)
(* the sender's roster entry, the body as an <img> or as text; or the     *)
(* empty html! {} when the roster has no entry of that name.              *)
Bubble(roster, m) ==
    LET user == Find(roster, m.from)
    IN IF user.some
       THEN << [avatar |-> user.v.avatar,
                from |-> m.from,
                img |-> EndsWith(m.message, GifSuffix),
                body |-> m.message] >>
       ELSE << >>

RECURSIVE Bubbles(_, _)
Bubbles(roster, log) ==
    IF log = << >> THEN << >>
    ELSE Bubble(roster, Head(log)) \o Bubbles(roster, Tail(log))

(* Chat::view *)
View(roster, log) ==
    [roster |-> [i \in 1..Len(roster) |-> [avatar |-> roster[i].avatar, name |-> roster[i].name]],
     chat |-> Bubbles(roster, log)]

NoTree == [roster |-> << >>, chat |-> << >>]

-----------------------------------------------------------------------------
(* The component. *)

NoCall == [op |-> "none", raw |-> Empty, ok |-> FALSE, ret |-> FALSE, had |-> 0]
Call(op, raw, ok, ret) ==
    [op |-> op, raw |-> raw, ok |-> ok, ret |-> ret, had |-> Len(users)]

NoCodec == [op |-> "none"]

Init ==
    /\ phase = "Uninitialized"
    /\ users = << >>
    /\ messages = << >>
    /\ chat_input = Empty
    /\ wss = << >>
    /\ attempts = << >>
    /\ decoded = 0
    /\ submitted = 0
    /\ last = NoCall
    /\ rendered = NoTree
    /\ codec = NoCodec

(* Mutant: a send that fails is offered a second time, and is enqueued. *)
TrySend_Retry(text, ok) ==
    /\ wss' = Append(wss, text)
    /\ attempts' = IF ok THEN Append(attempts, [text |-> text, ok |-> TRUE])
                   ELSE attempts \o <<[text |-> text, ok |-> FALSE], [text |-> text, ok |-> TRUE]>>

(* Mutant: the text is put at the head of the queue. *)
TrySend_Front(text, ok) ==
    /\ wss' = IF ok THEN <<text>> \o wss ELSE wss
    /\ attempts' = Append(attempts, [text |-> text, ok |-> ok])

(* wss.tx.clone().try_send(text): the text is enqueued or the send fails. *)
TrySend(text, ok) ==
    /\ wss' = IF ok THEN Append(wss, text) ELSE wss
    /\ attempts' = Append(attempts, [text |-> text, ok |-> ok])

(* The frame built by create. *)
RegisterMessage(username) == WebSocketMessage("Register", None, Some(username))

(* A handler returned ret: the view is rendered again when it is true. *)
Rendered(ret, roster, log) == IF ret THEN View(roster, log) ELSE rendered

(* Chat::create, and the first render of the new component. *)
Create(username, ok) ==
    /\ phase = "Uninitialized"
    /\ TrySend(to_string(RegisterMessage(username)), ok)
    /\ users' = << >>
    /\ messages' = << >>
    /\ phase' = "Active"
    /\ rendered' = View(<< >>, << >>)
    /\ last' = Call("create", username, ok, FALSE)
    /\ UNCHANGED <<chat_input, decoded, submitted, codec>>

(* A failed unwrap(): the handler panics, the state is as it was. *)
Panic(s) ==
    /\ phase' = "Panicked"
    /\ last' = Call("HandleMsg", s, FALSE, FALSE)
    /\ UNCHANGED <<users, messages, chat_input, wss, attempts, submitted, rendered, codec>>

(* Mutant: an absent list keeps the names of the current roster. *)
UnwrapOr_Current(o) == IF o.some THEN o.v ELSE [i \in 1..Len(users) |-> users[i].name]

(* msg.data_array.unwrap_or_default() *)
UnwrapOrDefault(o) == IF o.some THEN o.v ELSE << >>

(* Mutant: the new entry is put in front of the log. *)
Push_Front(log, m) == <<m>> \o log

(* self.messages.push(message_data) *)
Push(log, m) == Append(log, m)

(* An inbound text that decodes to a Message frame and whose data decodes *)
(* to a MessageData.                                                      *)
DecodesInFull(s) ==
    LET parsed == FromStrWebSocketMessage(s)
    IN /\ parsed.ok
       /\ parsed.v.message_type = "Message"
       /\ parsed.v.data.some
       /\ FromStrMessageData(parsed.v.data.v).ok

(* Mutant: the Users arm replaces the roster and returns false. *)
UsersArm_NoRender(s, msg) ==
    /\ users' = Profiles(UnwrapOrDefault(msg.data_array))
    /\ rendered' = Rendered(FALSE, users', messages)
    /\ last' = Call("HandleMsg", s, TRUE, FALSE)
    /\ UNCHANGED <<phase, messages, chat_input, wss, attempts, submitted, codec>>

(* Mutant: the Users arm also starts a new log. *)
UsersArm_ClearsLog(s, msg) ==
    /\ users' = Profiles(UnwrapOrDefault(msg.data_array))
    /\ messages' = << >>
    /\ rendered' = Rendered(TRUE, users', messages')
    /\ last' = Call("HandleMsg", s, TRUE, TRUE)
    /\ UNCHANGED <<phase, chat_input, wss, attempts, submitted, codec>>

(* Chat::update, Msg::HandleMsg, the MsgTypes::Users arm *)
UsersArm(s, msg) ==
    LET users_from_message == UnwrapOrDefault(msg.data_array)
    IN /\ users' = Profiles(users_from_message)
       /\ rendered' = Rendered(TRUE, users', messages)
       /\ last' = Call("HandleMsg", s, TRUE, TRUE)
       /\ UNCHANGED <<phase, messages, chat_input, wss, attempts, submitted, codec>>

(* Chat::update, Msg::HandleMsg, the MsgTypes::Message arm *)
MessageArm(s, msg) ==
    IF ~msg.data.some
    THEN Panic(s)
    ELSE LET message_data == FromStrMessageData(msg.data.v)
         IN IF ~message_data.ok
            THEN Panic(s)
            ELSE /\ Len(messages) < MaxLog
                 /\ messages' = Push(messages, message_data.v)
                 /\ rendered' = Rendered(TRUE, users, messages')
                 /\ last' = Call("HandleMsg", s, TRUE, TRUE)
                 /\ UNCHANGED <<phase, users, chat_input, wss, attempts, submitted, codec>>

(* Mutant: the catch-all arm asks for a re-render and answers the frame. *)
OtherArm_Echo(s, msg) ==
    /\ TrySend(to_string(msg), TRUE)
    /\ rendered' = Rendered(TRUE, users, messages)
    /\ last' = Call("HandleMsg", s, TRUE, TRUE)
    /\ UNCHANGED <<phase, users, messages, chat_input, submitted, codec>>

(* Chat::update, Msg::HandleMsg, the catch-all arm (MsgTypes::Register) *)
OtherArm(s, msg) ==
    /\ rendered' = Rendered(FALSE, users, messages)
    /\ last' = Call("HandleMsg", s, TRUE, FALSE)
    /\ UNCHANGED <<phase, users, messages, chat_input, wss, attempts, submitted, codec>>

(* Chat::update, Msg::HandleMsg(s) *)
HandleMsg(s) ==
    /\ phase = "Active"
    /\ decoded' = IF DecodesInFull(s) THEN decoded + 1 ELSE decoded
    /\ LET parsed == FromStrWebSocketMessage(s)
       IN IF ~parsed.ok
          THEN Panic(s)
          ELSE LET msg == parsed.v
               IN CASE msg.message_type = "Users" -> UsersArm(s, msg)
                    [] msg.message_type = "Message" -> MessageArm(s, msg)
                    [] OTHER -> OtherArm(s, msg)

(* Whitespace-only text, the empty text included (read by the history *)
(* variable submitted only: the handler itself never inspects the text). *)
IsBlank(s) == ~IsDoc(s) /\ \A i \in 1..Len(s.lit) : s.lit[i] = " "

(* Mutant: the input text is wrapped into a {from, message} payload. *)
ChatFrame_Wrapped(value) == WebSocketMessage("Message", None, Some(Payload(Alice, value)))

(* Mutant: the chat frame is sent under the Register discriminant. *)
ChatFrame_AsRegister(value) == WebSocketMessage("Register", None, Some(value))

(* The frame built by the SubmitMessage arm from input.value(). *)
ChatFrame(value) == WebSocketMessage("Message", None, Some(value))

(* Mutant: the input is cleared only when the send succeeded. *)
ValueAfterSend_OnSuccess(ok) == IF ok THEN Empty ELSE chat_input

(* input.set_value("") after the send, whatever its outcome. *)
ValueAfterSend(ok) == Empty

(* Mutant: a text that was enqueued is also shown at once, as one's own. *)
SubmitMessage_LocalEcho(ok) ==
    /\ phase = "Active"
    /\ TrySend(to_string(ChatFrame(chat_input)), ok)
    /\ chat_input' = ValueAfterSend(ok)
    /\ messages' = IF ok THEN Push(messages, MessageData(Alice, chat_input)) ELSE messages
    /\ rendered' = Rendered(ok, users, messages')
    /\ submitted' = IF IsBlank(chat_input) THEN submitted ELSE submitted + 1
    /\ last' = Call("SubmitMessage", chat_input, ok, ok)
    /\ UNCHANGED <<phase, users, decoded, codec>>

(* Chat::update, Msg::SubmitMessage *)
SubmitMessage(ok) ==
    /\ phase = "Active"
    /\ TrySend(to_string(ChatFrame(chat_input)), ok)
    /\ chat_input' = ValueAfterSend(ok)
    /\ rendered' = Rendered(FALSE, users, messages)
    /\ submitted' = IF IsBlank(chat_input) THEN submitted ELSE submitted + 1
    /\ last' = Call("SubmitMessage", chat_input, ok, FALSE)
    /\ UNCHANGED <<phase, users, messages, decoded, codec>>

(* The user edits the <input> element the view renders. *)
TypeInput(text) ==
    /\ phase = "Active"
    /\ text # chat_input
    /\ chat_input' = text
    /\ last' = Call("TypeInput", text, FALSE, FALSE)
    /\ UNCHANGED <<phase, users, messages, wss, attempts, decoded, submitted, rendered, codec>>

Next ==
    \/ \E username \in Identities, ok \in BOOLEAN : Create(username, ok)
    \/ \E s \in InboundTexts : HandleMsg(s)
    \/ \E ok \in BOOLEAN : Len(attempts) < MaxSend /\ SubmitMessage(ok)
    \/ \E text \in InputTexts : TypeInput(text)

Spec == Init /\ [][Next]_vars

-----------------------------------------------------------------------------
(* What a raw text says, read off its JSON directly. *)

IsObj(s) == IsDoc(s) /\ s.doc.t = "obj"
RawField(s, k) == IF IsObj(s) /\ k \in DOMAIN s.doc.o THEN s.doc.o[k] ELSE Absent
RawKind(s) == IF RawField(s, "messageType").t = "str" THEN RawField(s, "messageType").s ELSE Empty
RawEntry(s) ==
    LET p == RawField(s, "data").s
    IN [from |-> RawField(p, "from").s, message |-> RawField(p, "message").s]

IsPrefix(p, q) == Len(p) <= Len(q) /\ \A i \in 1..Len(p) : p[i] = q[i]

Decodes(s) == FromStrWebSocketMessage(s).ok
CarriesList(s) ==
    Decodes(s) /\ RawKind(s) = WireName("Users") /\ RawField(s, "dataArray").t = "arr"
CarriesNoList(s) ==
    Decodes(s) /\ RawKind(s) = WireName("Users") /\ RawField(s, "dataArray") \in {Absent, JNull}
BadChat(s) == Decodes(s) /\ RawKind(s) = WireName("Message") /\ ~DecodesInFull(s)

Handled == last.op = "HandleMsg"
Submitted == last.op = "SubmitMessage"
LastAttempt == attempts[Len(attempts)]
KindCount(att, mt) == Cardinality({i \in DOMAIN att : RawKind(att[i].text) = WireName(mt)})

-----------------------------------------------------------------------------
(* C1: when HandleMsg receives a text that does not decode to a frame (not *)
(* JSON, or an unknown messageType), roster and log are what they were and *)
(* the component has not crashed, so it keeps handling frames and submits. *)
C1_MalformedFrameDropped ==
    [][(last'.op = "HandleMsg" /\ ~Decodes(last'.raw))
         => (users' = users /\ messages' = messages /\ phase' = "Active")]_vars

(* C2: once a Users frame that carries a list has been handled, the roster *)
(* has exactly the names of that list: same length, same order, duplicates *)
(* kept, nothing of an earlier roster left.                                *)
C2_RosterIsFrameList ==
    (Handled /\ CarriesList(last.raw))
        => LET a == RawField(last.raw, "dataArray").a
           IN /\ Len(users) = Len(a)
              /\ \A i \in 1..Len(a) : users[i].name = a[i].s

(* A Users frame with one name was handled on a roster of two. *)
C2_Witness ==
    /\ Handled /\ CarriesList(last.raw)
    /\ last.had = 2
    /\ Len(users) = 1 /\ users[1].name = Alice

(* C3: the log is append-only and in arrival order: every step leaves the  *)
(* old log a prefix of the new one, the log is as long as the number of    *)
(* inbound Message frames decoded in full, and a step that changes the log *)
(* is a HandleMsg that appends the entry its frame carries.                *)
C3_LogAppendOnly ==
    [][/\ IsPrefix(messages, messages')
       /\ Len(messages') = decoded'
       /\ (messages' # messages
             => /\ last'.op = "HandleMsg"
                /\ messages' = Append(messages, RawEntry(last'.raw)))]_vars

(* Two different entries arrived, and both are in the log. *)
C3_Witness ==
    /\ Handled
    /\ Len(messages) = 2 /\ messages[1] # messages[2]
    /\ decoded = 2

(* C4: a Message frame whose data is absent or does not decode to          *)
(* {from, message} is dropped: log and roster are unchanged and the        *)
(* component has not crashed.                                              *)
C4_BadPayloadDropped ==
    [][(last'.op = "HandleMsg" /\ BadChat(last'.raw))
         => (messages' = messages /\ users' = users /\ phase' = "Active")]_vars

C6_BlankSubmitIsNoOp ==
    [][(last'.op = "SubmitMessage" /\ IsBlank(last'.raw))
         => (attempts' = attempts /\ wss' = wss /\ users' = users /\ messages' = messages)]_vars

(* C7: a submit with non-blank input offers one frame, of kind message,    *)
(* with the raw input text as data and no dataArray; and the number of     *)
(* message frames offered equals the number of non-blank submissions.      *)
C7_OneFramePerSubmission ==
    /\ KindCount(attempts, "Message") = submitted
    /\ (Submitted /\ ~IsBlank(last.raw))
          => /\ RawKind(LastAttempt.text) = WireName("Message")
             /\ RawField(LastAttempt.text, "data") = JStr(last.raw)
             /\ RawField(LastAttempt.text, "dataArray") \in {Absent, JNull}

(* C8 as claimed: the data of the frame a non-blank submit offers decodes  *)
(* to a {from, message} payload whose message is the submitted text.       *)
C8_DataIsEncodedPayload ==
    (Submitted /\ ~IsBlank(last.raw))
        => LET d == RawField(LastAttempt.text, "data")
           IN /\ d.t = "str"
              /\ FromStrMessageData(d.s).ok
              /\ FromStrMessageData(d.s).v.message = last.raw

(* C8 as amended: the data of the frame a submit offers is the input text  *)
(* itself, with no {from, message} wrapping; for a text that is not JSON   *)
(* it does not decode to a MessageData.                                    *)
C8_DataIsRawText ==
    Submitted
        => LET d == RawField(LastAttempt.text, "data")
           IN /\ d = JStr(last.raw)
              /\ (~IsDoc(last.raw) => ~FromStrMessageData(d.s).ok)

(* The text "hi" was submitted and enqueued. *)
C8_Witness ==
    /\ Submitted /\ last.raw = Hi /\ last.ok
    /\ wss[Len(wss)] = LastAttempt.text

(* C9: a submit with non-blank input leaves the input empty whether or not *)
(* the send succeeded, makes one send attempt, enqueues nothing when the   *)
(* send failed, and leaves roster and log unchanged.                       *)
C9_InputClearedNoRetry ==
    [][(last'.op = "SubmitMessage" /\ ~IsBlank(last'.raw))
         => /\ chat_input' = Empty
            /\ Len(attempts') = Len(attempts) + 1
            /\ (~attempts'[Len(attempts')].ok => wss' = wss)
            /\ users' = users /\ messages' = messages]_vars

(* A non-blank submit failed to enqueue, with roster and log populated. *)
C9_Witness ==
    /\ Submitted /\ ~IsBlank(last.raw) /\ ~last.ok
    /\ chat_input = Empty
    /\ users # << >> /\ messages # << >>

(* C10: create leaves roster and log empty and offers one Register frame   *)
(* whose data is the user's name; no later step offers a Register frame.   *)
C10_RegisterOnce ==
    [][/\ last'.op = "create"
          => /\ users' = << >> /\ messages' = << >>
             /\ Len(attempts') = 1
             /\ attempts'[1].text =
                    Doc(WireObj(JStr(WireName("Register")), JNull, JStr(last'.raw)))
       /\ last'.op # "create"
          => KindCount(attempts', "Register") = KindCount(attempts, "Register")]_vars

(* After create, frames were handled and a text was submitted. *)
C10_Witness ==
    /\ Submitted /\ ~IsBlank(last.raw)
    /\ Len(attempts) = 2
    /\ KindCount(attempts, "Register") = 1
    /\ decoded > 0 /\ users # << >>

-----------------------------------------------------------------------------
(* The names of the users frame, message frame and register frame kinds. *)
IsKind(s, mt) == Decodes(s) /\ RawKind(s) = WireName(mt)

(* C11: when create fails to enqueue the Register frame, the component is  *)
(* Active all the same, with empty roster and log, after one send attempt  *)
(* and with nothing enqueued; every inbound text and a submit can be       *)
(* handled next; and the Register frame is never enqueued later.           *)
C11_FailedRegisterCompletes ==
    /\ (last.op = "create" /\ ~last.ok)
          => /\ phase = "Active"
             /\ users = << >> /\ messages = << >>
             /\ Len(attempts) = 1 /\ wss = << >>
             /\ \A s \in InboundTexts : ENABLED HandleMsg(s)
             /\ \A ok \in BOOLEAN : ENABLED SubmitMessage(ok)
    /\ (phase # "Uninitialized" /\ ~attempts[1].ok)
          => \A i \in 1..Len(wss) : RawKind(wss[i]) # WireName("Register")

(* After a failed registration a frame was decoded and a text enqueued. *)
C11_Witness ==
    /\ phase = "Active" /\ ~attempts[1].ok
    /\ Submitted /\ last.ok /\ Len(wss) = 1
    /\ decoded > 0

(* C12: an inbound Register frame changes neither roster nor log, offers   *)
(* nothing to the transport, returns false (no re-render, the tree is as   *)
(* it was) and is no error: the component stays Active.                    *)
C12_InboundRegisterNoOp ==
    [][(last'.op = "HandleMsg" /\ IsKind(last'.raw, "Register"))
         => /\ users' = users /\ messages' = messages
            /\ wss' = wss /\ attempts' = attempts
            /\ ~last'.ret /\ rendered' = rendered
            /\ phase' = "Active"]_vars

(* A Register frame was handled with roster and log populated. *)
C12_Witness ==
    /\ Handled /\ IsKind(last.raw, "Register")
    /\ phase = "Active"
    /\ users # << >> /\ messages # << >>

(* C13: every log entry is rendered, whether or not its sender is in the   *)
(* roster: the tree has as many chat entries as the log, with its bodies.  *)
C13_EveryEntryRendered ==
    phase # "Uninitialized"
        => /\ Len(rendered.chat) = Len(messages)
           /\ \A i \in 1..Len(messages) : rendered.chat[i].body = messages[i].message

-----------------------------------------------------------------------------
(* The view as a function of the state: any roster of the inbound lists   *)
(* and any log of up to MaxViewLog entries, then rendered.                *)

RECURSIVE SeqsUpTo(_, _)
SeqsUpTo(S, n) ==
    IF n = 0 THEN {<< >>}
    ELSE LET shorter == SeqsUpTo(S, n - 1)
         IN shorter \cup {Append(q, x) : q \in shorter, x \in S}

ViewBodies == {Gif, Png, Hi, Empty, Lit(GifSuffix), Lit(Tail(GifSuffix)),
               Lit(GifSuffix \o <<" ">>), Payload(Alice, Gif)}
ViewEntries == {MessageData(f, b) : f \in {Alice, Carol}, b \in ViewBodies}

InitView ==
    /\ phase = "Active"
    /\ users \in {Profiles(l) : l \in RosterLists}
    /\ messages \in SeqsUpTo(ViewEntries, MaxViewLog)
    /\ chat_input = Empty
    /\ wss = << >>
    /\ attempts = << >>
    /\ decoded = 0
    /\ submitted = 0
    /\ last = NoCall
    /\ rendered = NoTree
    /\ codec = NoCodec

(* Chat::view is called and its tree displayed. *)
Render ==
    /\ phase = "Active"
    /\ rendered' = View(users, messages)
    /\ UNCHANGED <<phase, users, messages, chat_input, wss, attempts, decoded, submitted,
                   last, codec>>

NextView == Render

SpecView == InitView /\ [][NextView]_vars

(* C14: a displayed entry shows its body as an image exactly when the body *)
(* ends with ".gif"; a body ending with ".png" is shown as text.           *)
HasGifEnd(t) ==
    /\ ~IsDoc(t)
    /\ \E n \in 4..Len(t.lit) :
          /\ n = Len(t.lit)
          /\ t.lit[n - 3] = "." /\ t.lit[n - 2] = "g" /\ t.lit[n - 1] = "i" /\ t.lit[n] = "f"
C14_ImageIffGifSuffix ==
    \A k \in 1..Len(rendered.chat) :
        /\ rendered.chat[k].img <=> HasGifEnd(rendered.chat[k].body)
        /\ rendered.chat[k].body = Png => ~rendered.chat[k].img

(* A ".gif" body is displayed as an image and a ".png" body as text. *)
C14_Witness ==
    /\ Len(rendered.chat) = 2
    /\ rendered.chat[1].body = Gif /\ rendered.chat[1].img
    /\ rendered.chat[2].body = Png /\ ~rendered.chat[2].img

-----------------------------------------------------------------------------
(* The codec as a function: every frame value is encoded and decoded back, *)
(* every frame text is decoded and encoded again.                          *)

CodecData == {Hi, Empty, Payload(Alice, Gif)}

FrameValues ==
    {WebSocketMessage(mt, da, d) :
        mt \in MsgTypes,
        da \in {None} \cup {Some(l) : l \in RosterLists},
        d \in {None} \cup {Some(t) : t \in CodecData}}

FrameTexts ==
    {Doc(WireObj(JStr(WireName(mt)), da, d)) :
        mt \in MsgTypes,
        da \in {Absent, JNull} \cup {JArr([i \in 1..Len(l) |-> JStr(l[i])]) : l \in RosterLists},
        d \in {Absent, JNull} \cup {JStr(t) : t \in CodecData}}

InitCodec == Init

(* serde_json::to_string(&f), then serde_json::from_str of the result. *)
Encode(f) ==
    /\ codec' = [op |-> "encode", frame |-> f, text |-> to_string(f),
                 back |-> FromStrWebSocketMessage(to_string(f))]
    /\ UNCHANGED <<phase, users, messages, chat_input, wss, attempts, decoded, submitted,
                   last, rendered>>

(* serde_json::from_str(&x), then serde_json::to_string of the result. *)
Decode(x) ==
    /\ LET parsed == FromStrWebSocketMessage(x)
       IN codec' = [op |-> "decode", text |-> x, frame |-> parsed,
                    again |-> IF parsed.ok THEN to_string(parsed.v) ELSE x]
    /\ UNCHANGED <<phase, users, messages, chat_input, wss, attempts, decoded, submitted,
                   last, rendered>>

NextCodec ==
    \/ \E f \in FrameValues : Encode(f)
    \/ \E x \in FrameTexts : Decode(x)

SpecCodec == InitCodec /\ [][NextCodec]_vars

(* C15: decoding the encoding of a frame value gives the frame value back; *)
(* decoding a frame text and encoding the result gives a text with the     *)
(* same discriminant, the same dataArray and the same data, an absent key  *)
(* and null being the same payload.                                        *)
Payload0(v) == IF v = Absent THEN JNull ELSE v
C15_RoundTrip ==
    /\ codec.op = "encode" => (codec.back.ok /\ codec.back.v = codec.frame)
    /\ codec.op = "decode"
          => /\ codec.frame.ok
             /\ RawKind(codec.again) = RawKind(codec.text)
             /\ \A k \in {"dataArray", "data"} :
                   Payload0(RawField(codec.again, k)) = Payload0(RawField(codec.text, k))

(* A users frame without a data key was decoded and encoded again. *)
C15_Witness ==
    /\ codec.op = "decode"
    /\ RawKind(codec.text) = WireName("Users")
    /\ RawField(codec.text, "dataArray").t = "arr" /\ Len(RawField(codec.text, "dataArray").a) = 2
    /\ RawField(codec.text, "data") = Absent
    /\ RawField(codec.again, "data") = JNull

-----------------------------------------------------------------------------
(* C16: an accepted Users frame and an accepted Message frame return true, *)
(* and the displayed tree is the view of the current roster and log in     *)
(* every state.                                                            *)
C16_RenderedAfterMutation ==
    /\ (Handled /\ (IsKind(last.raw, "Users") \/ DecodesInFull(last.raw))) => last.ret
    /\ phase # "Uninitialized" => rendered = View(users, messages)

(* A Message frame was accepted and its entry is displayed. *)
C16_Witness ==
    /\ Handled /\ DecodesInFull(last.raw) /\ last.ret
    /\ Len(rendered.chat) = 1
    /\ rendered.chat[1].body = messages[Len(messages)].message

(* The component with room for several submissions, under a few inbound    *)
(* frames, one for each arm of the HandleMsg handler.                      *)

MaxOut == 3

SendInbound ==
    { Doc(WireObj(JStr(WireName("Users")), JArr(<<JStr(Alice)>>), Absent)),
      Doc(WireObj(JStr(WireName("Message")), Absent, JStr(Payload(Alice, Gif)))),
      Doc(WireObj(JStr(WireName("Register")), Absent, JStr(Bob))),
      Oops }

NextSend ==
    \/ \E username \in Identities, ok \in BOOLEAN : Create(username, ok)
    \/ \E s \in SendInbound : HandleMsg(s)
    \/ \E ok \in BOOLEAN : Len(attempts) < MaxOut /\ SubmitMessage(ok)
    \/ \E text \in InputTexts : TypeInput(text)

SpecSend == Init /\ [][NextSend]_vars

RECURSIVE Enqueued(_)
Enqueued(att) ==
    IF att = << >> THEN << >>
    ELSE (IF Head(att).ok THEN <<Head(att).text>> ELSE << >>) \o Enqueued(Tail(att))

(* C17: the transport queue holds exactly the texts whose enqueue          *)
(* succeeded, once each and in the order of the calls that offered them;   *)
(* a Register frame in the queue is its first frame, so it precedes every  *)
(* Message frame.                                                          *)
C17_EnqueueOrder ==
    /\ wss = Enqueued(attempts)
    /\ \A i \in 1..Len(wss) : IsKind(wss[i], "Register") => i = 1
    /\ \A i \in 1..Len(wss) : i > 1 => IsKind(wss[i], "Message")

(* Register, then two different chat frames with an inbound message        *)
(* handled in between, are in the queue in that order.                     *)
C17_Witness ==
    /\ Len(wss) = 3
    /\ wss[1] = to_string(RegisterMessage(Alice))
    /\ wss[2] = to_string(ChatFrame(Hi))
    /\ wss[3] = to_string(ChatFrame(Blank))
    /\ Len(messages) = 1

-----------------------------------------------------------------------------
(* C18: handling a Users frame leaves the log as it was, and handling a    *)
(* Message frame leaves the roster as it was.                              *)
C18_RosterAndLogIndependent ==
    [][/\ (last'.op = "HandleMsg" /\ IsKind(last'.raw, "Users")) => messages' = messages
       /\ (last'.op = "HandleMsg" /\ IsKind(last'.raw, "Message")) => users' = users]_vars

(* A Users frame changed the roster under a log of two entries. *)
C18_Witness ==
    /\ Handled /\ IsKind(last.raw, "Users")
    /\ Len(users) # last.had
    /\ Len(messages) = 2

(* C19: SubmitMessage leaves roster and log as they were, returns false    *)
(* and leaves the displayed tree as it was; the log still has one entry    *)
(* per inbound Message frame decoded in full.                              *)
C19_SubmitLeavesState ==
    [][last'.op = "SubmitMessage"
         => /\ users' = users /\ messages' = messages
            /\ ~last'.ret /\ rendered' = rendered
            /\ Len(messages') = decoded']_vars

(* The text "hi" was enqueued and no log entry has that body. *)
C19_Witness ==
    /\ Submitted /\ last.raw = Hi /\ last.ok
    /\ messages # << >>
    /\ \A i \in 1..Len(messages) : messages[i].message # Hi

(* C20: the chat entries of the tree are the log entries whose sender is   *)
(* the name of a roster entry, in log order, each with its sender, body    *)
(* and the avatar of the first roster entry of that name.                  *)
Shown == {i \in 1..Len(messages) : \E j \in 1..Len(users) : users[j].name = messages[i].from}
Rank(i) == Cardinality({k \in Shown : k <= i})
FirstOf(name) == CHOOSE j \in 1..Len(users) :
                    /\ users[j].name = name
                    /\ \A k \in 1..(j - 1) : users[k].name # name
C20_ViewShowsRosterSenders ==
    phase # "Uninitialized"
        => /\ Len(rendered.chat) = Cardinality(Shown)
           /\ \A i \in Shown :
                 /\ rendered.chat[Rank(i)].from = messages[i].from
                 /\ rendered.chat[Rank(i)].body = messages[i].message
                 /\ rendered.chat[Rank(i)].avatar = users[FirstOf(messages[i].from)].avatar

(* A Users frame has hidden an entry that is still in the log: of two log  *)
(* entries, one is displayed.                                              *)
C20_Witness ==
    /\ Handled /\ IsKind(last.raw, "Users")
    /\ last.had = 2
    /\ Len(messages) = 2
    /\ Len(rendered.chat) = 1

====
